---- MODULE Spec2Model ----
(***************************************************************************)
(* Model of src/src/board.rs: the peg-solitaire Board, one 64-bit          *)
(* Bitboard `occupied`, its cell mutations and its seven symmetry          *)
(* transforms with their corrective shifts.                                *)
(*                                                                         *)
(* A Bitboard (u64) is modelled as the set of the indices of its set bits, *)
(* a subset of 0..63; bit i is file (i % 8), rank (i \div 8), A1 = bit 0,  *)
(* H8 = bit 63. Shifts drop the bits that leave the 64-bit word.           *)
(***************************************************************************)
EXTENDS Integers, FiniteSets, Sequences, TLC

VARIABLES occupied, prev, last, arg, ret, ops

vars == <<occupied, prev, last, arg, ret, ops>>

\* Number of operations applied to a freshly constructed board.
MaxOps == 2

Squares == 0..63

Files == 1..8

Ranks == 1..8

\* Square::from_coords with file A = 1 .. H = 8 and rank 1 .. 8.
from_coords(f, r) == (r - 1) * 8 + (f - 1)

file_of(sq) == (sq % 8) + 1

rank_of(sq) == (sq \div 8) + 1

Abs(x) == IF x < 0 THEN -x ELSE x

(***************************************************************************)
(* Bitboard: primitive set operations and the pure 8x8 transforms.         *)
(***************************************************************************)
contains(m, sq) == sq \in m

toggle(m, sq) == IF sq \in m THEN m \ {sq} ELSE m \cup {sq}

discard(m, sq) == m \ {sq}

\* row r <-> row 7-r, columns unchanged (byte swap).
Bitboard_flip_vertical(m) == {(7 - (i \div 8)) * 8 + (i % 8) : i \in m}

\* column c <-> column 7-c, rows unchanged (per-byte bit reversal).
Bitboard_flip_horizontal(m) == {(i \div 8) * 8 + (7 - (i % 8)) : i \in m}

\* transpose: cell (r,c) -> (c,r).
Bitboard_flip_diagonal(m) == {(i % 8) * 8 + (i \div 8) : i \in m}

\* cell (r,c) -> (7-c,7-r).
Bitboard_flip_anti_diagonal(m) == {(7 - (i % 8)) * 8 + (7 - (i \div 8)) : i \in m}

Bitboard_rotate_90(m) == Bitboard_flip_vertical(Bitboard_flip_diagonal(m))

Bitboard_rotate_180(m) == Bitboard_flip_horizontal(Bitboard_flip_vertical(m))

Bitboard_rotate_270(m) == Bitboard_flip_diagonal(Bitboard_flip_vertical(m))

\* u64 << k and u64 >> k: bits shifted out of the word are lost.
Shl(m, k) == {i + k : i \in {j \in m : j + k <= 63}}

Shr(m, k) == {i - k : i \in {j \in m : j >= k}}

\* The set bits of a u64 literal given as its eight bytes, rank 1 first.
BitSet(n) == {b \in 0..7 : (n \div (2 ^ b)) % 2 = 1}

MaskOfBytes(bytes) == {i \in Squares : (i % 8) \in BitSet(bytes[(i \div 8) + 1])}

(***************************************************************************)
(* Board                                                                   *)
(***************************************************************************)
\* Mutant of new: the standard layout with the centre hole left empty.
new_centre_empty == MaskOfBytes(<<56, 124, 254, 238, 254, 124, 56, 0>>)

\* Bitboard(0x00_38_7c_fe_fe_fe_7c_38)
new == MaskOfBytes(<<56, 124, 254, 254, 254, 124, 56, 0>>)

empty == {}

occupied_at(occ, sq) == contains(occ, sq)

\* The squares occupy refuses, in the order of its chain of comparisons.
OccupyRefused ==
    { from_coords(1, 1), from_coords(1, 2), from_coords(1, 3), from_coords(1, 4),
      from_coords(1, 5), from_coords(1, 6), from_coords(1, 7),
      from_coords(2, 1), from_coords(2, 2), from_coords(2, 6), from_coords(2, 7),
      from_coords(3, 1), from_coords(3, 7),
      from_coords(7, 1), from_coords(7, 7),
      from_coords(1, 8), from_coords(2, 8), from_coords(3, 8), from_coords(4, 8),
      from_coords(5, 8), from_coords(6, 8), from_coords(7, 8), from_coords(8, 8) }

remove_at_result(occ, sq) == occupied_at(occ, sq)

\* Mutant of remove_at: toggles without testing the cell first.
remove_at_unguarded(occ, sq) == toggle(occ, sq)

remove_at(occ, sq) == IF occupied_at(occ, sq) THEN toggle(occ, sq) ELSE occ

discard_at(occ, sq) == discard(occ, sq)

\* Mutant of occupy: toggles without discarding the cell first.
occupy_toggle_only(occ, sq) ==
    IF sq \in OccupyRefused THEN occ ELSE toggle(occ, sq)

occupy(occ, sq) ==
    IF sq \in OccupyRefused THEN occ ELSE toggle(discard_at(occ, sq), sq)

\* Mutant of flip_vertical: the corrective shift is missing.
flip_vertical_unshifted(occ) == Bitboard_flip_vertical(occ)

flip_vertical(occ) == Shr(Bitboard_flip_vertical(occ), 8)

flip_horizontal(occ) == Shl(Bitboard_flip_horizontal(occ), 1)

flip_diagonal(occ) == Shr(Bitboard_flip_diagonal(occ), 7)

\* Mutant of flip_anti_diagonal: shifted by one rank like flip_vertical.
flip_anti_diagonal_shifted(occ) == Shr(Bitboard_flip_anti_diagonal(occ), 8)

flip_anti_diagonal(occ) == Bitboard_flip_anti_diagonal(occ)

\* Mutant of rotate_90: the corrective shift is missing.
rotate_90_unshifted(occ) == Bitboard_rotate_90(occ)

rotate_90(occ) == Shl(Bitboard_rotate_90(occ), 1)

\* Mutant of rotate_180: shifted by one rank only.
rotate_180_one_rank(occ) == Shr(Bitboard_rotate_180(occ), 8)

rotate_180(occ) == Shr(Bitboard_rotate_180(occ), 7)

\* Mutant of rotate_270: shifted by the amount of flip_diagonal.
rotate_270_diagonal_shift(occ) == Shr(Bitboard_rotate_270(occ), 7)

rotate_270(occ) == Shr(Bitboard_rotate_270(occ), 8)

(***************************************************************************)
(* State machine: a board is constructed by new() or empty(), then any     *)
(* operation is called with any square. `prev`, `last`, `arg` and `ret`    *)
(* record the last call: the board before it, its name, its square and     *)
(* the value remove_at returned.                                           *)
(***************************************************************************)
Init ==
    /\ \/ occupied = new /\ last = "new"
       \/ occupied = empty /\ last = "empty"
    /\ prev = occupied
    /\ arg = 0
    /\ ret = FALSE
    /\ ops = 0

\* The record of a call: the board before it, its name, its square, the
\* value it returned, and one more operation counted.
Record(name, sq, result) ==
    /\ prev' = occupied
    /\ last' = name
    /\ arg' = sq
    /\ ret' = result
    /\ ops' = ops + 1

RemoveAt ==
    \E sq \in Squares :
        /\ ops < MaxOps
        /\ occupied' = remove_at(occupied, sq)
        /\ Record("remove_at", sq, remove_at_result(occupied, sq))

DiscardAt ==
    \E sq \in Squares :
        /\ ops < MaxOps
        /\ occupied' = discard_at(occupied, sq)
        /\ Record("discard_at", sq, FALSE)

Occupy ==
    \E sq \in Squares :
        /\ ops < MaxOps
        /\ occupied' = occupy(occupied, sq)
        /\ Record("occupy", sq, FALSE)

FlipVertical ==
    /\ ops < MaxOps
    /\ occupied' = flip_vertical(occupied)
    /\ Record("flip_vertical", 0, FALSE)

FlipHorizontal ==
    /\ ops < MaxOps
    /\ occupied' = flip_horizontal(occupied)
    /\ Record("flip_horizontal", 0, FALSE)

FlipDiagonal ==
    /\ ops < MaxOps
    /\ occupied' = flip_diagonal(occupied)
    /\ Record("flip_diagonal", 0, FALSE)

FlipAntiDiagonal ==
    /\ ops < MaxOps
    /\ occupied' = flip_anti_diagonal(occupied)
    /\ Record("flip_anti_diagonal", 0, FALSE)

Rotate90 ==
    /\ ops < MaxOps
    /\ occupied' = rotate_90(occupied)
    /\ Record("rotate_90", 0, FALSE)

Rotate180 ==
    /\ ops < MaxOps
    /\ occupied' = rotate_180(occupied)
    /\ Record("rotate_180", 0, FALSE)

Rotate270 ==
    /\ ops < MaxOps
    /\ occupied' = rotate_270(occupied)
    /\ Record("rotate_270", 0, FALSE)

Next ==
    \/ RemoveAt
    \/ DiscardAt
    \/ Occupy
    \/ FlipVertical
    \/ FlipHorizontal
    \/ FlipDiagonal
    \/ FlipAntiDiagonal
    \/ Rotate90
    \/ Rotate180
    \/ Rotate270

Spec == Init /\ [][Next]_vars

TypeOK ==
    /\ occupied \subseteq Squares
    /\ prev \subseteq Squares
    /\ arg \in Squares
    /\ ret \in BOOLEAN
    /\ ops \in 0..MaxOps

(***************************************************************************)
(* Geometry used to state the properties.                                  *)
(***************************************************************************)
Centre == from_coords(5, 4)

\* The cross drawn in the Board documentation: rows of 3, 5, 7, 7, 7, 5, 3
\* cells in files B..H and ranks 1..7, centred on E4.
CrossRegion ==
    { from_coords(f, r) : <<f, r>> \in
        { p \in Files \X Ranks :
            /\ Abs(p[1] - 5) <= 3
            /\ Abs(p[2] - 4) <= 3
            /\ Abs(p[1] - 5) + Abs(p[2] - 4) <= 4 } }

\* The playable region as the cells of the new() layout with the centre.
PlayableRegion == new \cup {Centre}

Transforms ==
    { "flip_vertical", "flip_horizontal", "flip_diagonal", "flip_anti_diagonal",
      "rotate_90", "rotate_180", "rotate_270" }

\* The reflection or rotation of the window B..H x 1..7 about E4, on
\* (file, rank) with files A = 1 .. H = 8.
Geo(name, f, r) ==
    CASE name = "flip_vertical" -> <<f, 8 - r>>
      [] name = "flip_horizontal" -> <<10 - f, r>>
      [] name = "flip_diagonal" -> <<r + 1, f - 1>>
      [] name = "flip_anti_diagonal" -> <<9 - r, 9 - f>>
      [] name = "rotate_90" -> <<r + 1, 9 - f>>
      [] name = "rotate_180" -> <<10 - f, 8 - r>>
      [] name = "rotate_270" -> <<9 - r, f - 1>>

GeoOf(name, sq) == Geo(name, file_of(sq), rank_of(sq))

StaysOnGrid(name, m) ==
    \A sq \in m : GeoOf(name, sq)[1] \in Files /\ GeoOf(name, sq)[2] \in Ranks

ImageUnder(name, m) ==
    { from_coords(GeoOf(name, sq)[1], GeoOf(name, sq)[2]) : sq \in m }

\* Squares named in tests::test_board_transformation.
D3 == from_coords(4, 3)

D4 == from_coords(4, 4)

D5 == from_coords(4, 5)

E3 == from_coords(5, 3)

E4 == from_coords(5, 4)

E5 == from_coords(5, 5)

F3 == from_coords(6, 3)

F4 == from_coords(6, 4)

F5 == from_coords(6, 5)

(***************************************************************************)
(* Properties                                                              *)
(***************************************************************************)

\* C1: in every reachable board every occupied cell belongs to the playable
\* region (the new() layout with the centre); every cell outside it reads
\* unoccupied through occupied_at.
C1_PlayableRegionOnly ==
    \A sq \in Squares : sq \notin PlayableRegion => ~occupied_at(occupied, sq)

\* C2: occupy on a square outside the playable region is a no-op: the whole
\* occupied mask is unchanged and the square reads unoccupied before and after.
C2_OccupyOutsideIsNoOp ==
    (last = "occupy" /\ arg \notin PlayableRegion) =>
        /\ occupied = prev
        /\ ~occupied_at(prev, arg)
        /\ ~occupied_at(occupied, arg)

\* C3 as claimed: new() is the 33-cell playable region with every cell
\* occupied except the centre, the 24 other squares unoccupied; empty() has
\* no occupied cell.
C3_StartCentreEmpty ==
    /\ last = "new" =>
        /\ \A sq \in Squares :
              occupied_at(occupied, sq) <=> (sq \in PlayableRegion /\ sq # Centre)
        /\ Cardinality(PlayableRegion) = 33
        /\ Cardinality(Squares \ PlayableRegion) = 24
    /\ last = "empty" => \A sq \in Squares : ~occupied_at(occupied, sq)

\* C3 amended: new() has every cell of the 37-cell cross occupied, the
\* centre E4 included, and the 27 other squares read unoccupied; empty() has
\* no occupied cell.
C3_StartingLayout ==
    /\ last = "new" =>
        /\ \A sq \in Squares : occupied_at(occupied, sq) <=> sq \in CrossRegion
        /\ occupied_at(occupied, Centre)
        /\ Cardinality(occupied) = 37
        /\ Cardinality(Squares \ occupied) = 27
    /\ last = "empty" => \A sq \in Squares : ~occupied_at(occupied, sq)

C3_Witness == last = "new" /\ ops = 0 /\ occupied_at(occupied, Centre)

\* The seven before/after pairs of tests::test_board_transformation.
TestBoardTransformation ==
    /\ flip_vertical(new \ {D4, D3}) = new \ {D4, D5}
    /\ flip_horizontal(new \ {D4, E4}) = new \ {E4, F4}
    /\ flip_diagonal(new \ {D4, E5}) = new \ {E3, F4}
    /\ flip_anti_diagonal(new \ {D4, E3}) = new \ {F4, E5}
    /\ rotate_90(new \ {D4, D5}) = new \ {E5, F5}
    /\ rotate_180(new \ {D4, D5}) = new \ {F4, F3}
    /\ rotate_270(new \ {D4, D5}) = new \ {E3, D3}

\* C4: each Board transform is exactly the corresponding reflection or
\* rotation of the window B..H x 1..7 about E4: the occupied set after the
\* call is the image of the occupied set before it, no cell leaving the
\* grid, and the seven pairs of test_board_transformation hold.
C4_TransformIsGeometricImage ==
    /\ last \in Transforms =>
        /\ StaysOnGrid(last, prev)
        /\ occupied = ImageUnder(last, prev)
    /\ TestBoardTransformation

C4_Witness ==
    /\ last = "rotate_90"
    /\ prev = new \ {D5}
    /\ occupied = new \ {F5}

\* C5: on every reachable board a transform followed by its inverse restores
\* the board: the four flips and rotate_180 are involutions, rotate_90 and
\* rotate_270 undo each other.
C5_RoundTrip ==
    /\ flip_vertical(flip_vertical(occupied)) = occupied
    /\ flip_horizontal(flip_horizontal(occupied)) = occupied
    /\ flip_diagonal(flip_diagonal(occupied)) = occupied
    /\ flip_anti_diagonal(flip_anti_diagonal(occupied)) = occupied
    /\ rotate_180(rotate_180(occupied)) = occupied
    /\ rotate_270(rotate_90(occupied)) = occupied
    /\ rotate_90(rotate_270(occupied)) = occupied
    /\ (last = "rotate_90" => rotate_270(occupied) = prev)
    /\ (last = "rotate_270" => rotate_90(occupied) = prev)
    /\ (last \in Transforms \ {"rotate_90", "rotate_270"} =>
          \/ last = "flip_vertical" /\ flip_vertical(occupied) = prev
          \/ last = "flip_horizontal" /\ flip_horizontal(occupied) = prev
          \/ last = "flip_diagonal" /\ flip_diagonal(occupied) = prev
          \/ last = "flip_anti_diagonal" /\ flip_anti_diagonal(occupied) = prev
          \/ last = "rotate_180" /\ rotate_180(occupied) = prev)

C5_Witness ==
    /\ last = "rotate_90"
    /\ occupied # prev
    /\ Cardinality(prev) >= 2
    /\ rotate_270(occupied) = prev

\* C6: on every reachable board rotate_180 applied once gives the same board
\* as rotate_90 applied twice.
C6_Rotate180IsRotate90Twice ==
    /\ rotate_180(occupied) = rotate_90(rotate_90(occupied))
    /\ (last = "rotate_180" => occupied = rotate_90(rotate_90(prev)))

C6_Witness ==
    /\ last = "rotate_180"
    /\ occupied # prev
    /\ occupied # {}
    /\ occupied = rotate_90(rotate_90(prev))

\* C7: remove_at(sq) returns true iff sq was occupied before the call; after
\* it sq is unoccupied and every other cell is unchanged; on an empty sq it
\* returns false and leaves the board unchanged.
C7_RemoveAtExact ==
    last = "remove_at" =>
        /\ ret = occupied_at(prev, arg)
        /\ ~occupied_at(occupied, arg)
        /\ \A sq \in Squares \ {arg} :
              occupied_at(occupied, sq) <=> occupied_at(prev, sq)
        /\ (~occupied_at(prev, arg) => (ret = FALSE /\ occupied = prev))

C7_Witness ==
    /\ last = "remove_at"
    /\ ret = TRUE
    /\ occupied_at(prev, arg)
    /\ ~occupied_at(occupied, arg)

\* C8: occupy(sq) on a playable square leaves sq occupied whether or not it
\* was occupied before, changes no other cell, leaves the board unchanged if
\* sq was already set, and a second occupy(sq) changes nothing.
C8_OccupyPlayable ==
    (last = "occupy" /\ arg \in PlayableRegion) =>
        /\ occupied_at(occupied, arg)
        /\ \A sq \in Squares \ {arg} :
              occupied_at(occupied, sq) <=> occupied_at(prev, sq)
        /\ (occupied_at(prev, arg) => occupied = prev)
        /\ occupy(occupied, arg) = occupied

C8_Witness ==
    /\ last = "occupy"
    /\ arg \in PlayableRegion
    /\ occupied_at(prev, arg)
    /\ occupied = prev

\* C9 as claimed: after flip_vertical the cell (f, r) is occupied iff the
\* cell (f, 9 - r) was occupied before.
C9_FlipVerticalRank9MinusR ==
    last = "flip_vertical" =>
        \A f \in Files, r \in Ranks :
            occupied_at(occupied, from_coords(f, r))
                <=> occupied_at(prev, from_coords(f, 9 - r))

\* C9 amended: after flip_vertical the cell (f, r) is occupied iff r <= 7
\* and the cell (f, 8 - r) was occupied before: rank r goes to rank 8 - r,
\* and rank 8 reads unoccupied.
C9_FlipVerticalRank8MinusR ==
    last = "flip_vertical" =>
        \A f \in Files, r \in Ranks :
            occupied_at(occupied, from_coords(f, r))
                <=> (r <= 7 /\ occupied_at(prev, from_coords(f, 8 - r)))

C9_Witness ==
    /\ last = "flip_vertical"
    /\ occupied_at(prev, D3)
    /\ ~occupied_at(prev, D5)
    /\ occupied_at(occupied, D5)
    /\ ~occupied_at(occupied, D3)

\* C10: a transform neither loses nor creates a peg: the number of occupied
\* cells is the same before and after, and file A and rank 8, which the
\* corrective shifts rely on, are empty in every reachable board.
C10_TransformKeepsPegCount ==
    /\ last \in Transforms => Cardinality(occupied) = Cardinality(prev)
    /\ \A sq \in occupied : file_of(sq) # 1 /\ rank_of(sq) # 8

C10_Witness ==
    /\ last \in Transforms
    /\ occupied # prev
    /\ Cardinality(prev) >= 30
    /\ Cardinality(occupied) = Cardinality(prev)

====
